---- MODULE Spec2Model ----
(***************************************************************************)
(* The CouchDB tool server of src/couchdb_mcp_server.py: the connection    *)
(* holder (connect, _get_server), the dispatcher (call_tool) and the       *)
(* eleven operation handlers, run against a document database with MVCC    *)
(* revisions.  A tool call is one step: the dispatcher, the handler, the   *)
(* lazy connect and every request the handler issues.                      *)
(*                                                                         *)
(* Values.  A Python dict is a function over its keys (a record).  An      *)
(* optional value (x or None) is a sequence: <<>> is None, <<x>> is x.     *)
(* A formatted string is the sequence of its pieces, so that               *)
(* f"Database '{name}' not found" is <<"Database '", name, "' not found">>.*)
(* json.dumps(r) is json_dumps(r), a text that carries the object r.       *)
(***************************************************************************)
EXTENDS Integers, Sequences, FiniteSets, TLC

\* Highest revision generation a document reaches; a write beyond it is not taken.
MaxGen == 2

\* arguments.get("limit", 25) and arguments.get("skip", 0) of call_tool.
DefaultLimit == 25
DefaultSkip == 0

\* The configured server URL (self.url).
Url == "http://localhost:5984"

\* Names and values the calls are drawn from.
DbNames == {"db1"}
DocIds == {"a", "b"}
GenIds == <<"g1">>
IdOrder == <<"a", "b", "g1">>
Values == {"x"}
IndexFields == <<"v">>

None == <<>>
Some(x) == <<x>>
Opt(S) == {None} \cup {Some(x) : x \in S}

Empty == [k \in {} |-> ""]
Field(k, o) == IF o = None THEN Empty ELSE (k :> o[1])
Range(s) == {s[i] : i \in 1..Len(s)}
AllIds == Range(IdOrder)

\* The revision token of generation g (opaque to the server code).
RevTok(g) == ToString(g) \o "-r"
Revs == {RevTok(g) : g \in 1..MaxGen}

----------------------------------------------------------------------------
(* Exceptions and results.  Every driver operation takes the world w (the  *)
(* connection handle, the database contents, the requests issued so far in *)
(* this call, and what the environment does during the call) and returns   *)
(* the exception it raises (or NoExc), its value and the world after it.   *)

Exc(type, msg) == [type |-> type, msg |-> msg]
NoExc == Exc("None", <<>>)
NoVal == [none |-> TRUE]
Result(exc, val, w) == [exc |-> exc, val |-> val, w |-> w]
Raise(exc, w) == Result(exc, NoVal, w)
Return(val, w) == Result(NoExc, val, w)

\* What each signal of the HTTP layer and of Python prints as (str(e)).
ConnRefused == Exc("OSError", <<"[Errno 111] Connection refused">>)
HttpNotFound(reason) == Exc("ResourceNotFound", <<"('not_found', '", reason, "')">>)
HttpConflict == Exc("ResourceConflict", <<"('conflict', 'Document update conflict.')">>)
HttpPrecondition == Exc("PreconditionFailed", <<"('file_exists', 'The database could not be created, the file already exists.')">>)
HttpBadRequest == Exc("ServerError", <<"(400, ('bad_request', 'Invalid operator'))">>)
PyKeyError(key) == Exc("KeyError", <<"'", key, "'">>)

\* A write past the model's bounds: the step that meets it is not taken.
Capped == Exc("Capped", <<>>)

NoBody == [none |-> TRUE]
Request(method, path, body) == [method |-> method, path |-> path, body |-> body]
Send(w, method, path, body) == [w EXCEPT !.reqs = Append(@, Request(method, path, body))]

----------------------------------------------------------------------------
(* The database server.  A document is absent, live or deleted (a          *)
(* tombstone); a write of a live document must carry its current revision. *)

AbsentDoc == [st |-> "absent", gen |-> 0, body |-> Empty]
NewDb == [docs |-> [i \in AllIds |-> AbsentDoc], indexes |-> {}]

UserFields(doc) == [k \in DOMAIN doc \ {"_id", "_rev"} |-> doc[k]]
StoredDoc(id, d) == ("_id" :> id) @@ ("_rev" :> RevTok(d.gen)) @@ d.body

\* Whether the server accepts a write of payload doc over the stored d.
RevAccepted(d, doc) ==
    CASE d.st = "live" -> "_rev" \in DOMAIN doc /\ doc["_rev"] = RevTok(d.gen)
      [] d.st = "deleted" -> "_rev" \notin DOMAIN doc \/ doc["_rev"] = RevTok(d.gen)
      [] OTHER -> "_rev" \notin DOMAIN doc

\* The ids the server has not used yet, in the order it hands them out.
FreshIds(db) == SelectSeq(GenIds, LAMBDA i : db.docs[i].st = "absent")

\* Live documents of db in id order.
LiveIds(db) == SelectSeq(IdOrder, LAMBDA i : db.docs[i].st = "live")

Matches(d, selector) == \A k \in DOMAIN selector : k \in DOMAIN d.body /\ d.body[k] = selector[k]
ValidSelector(selector) == \A k \in DOMAIN selector : k # "$bad"
Drop(s, n) == IF n >= Len(s) THEN <<>> ELSE SubSeq(s, n + 1, Len(s))
Take(s, n) == IF n >= Len(s) THEN s ELSE SubSeq(s, 1, n)

\* The documents POST /{db}/_find answers with: matching, skipped, limited.
FindDocs(db, q) ==
    LET ids == SelectSeq(LiveIds(db), LAMBDA i : Matches(db.docs[i], q.selector))
        page == Take(Drop(ids, q.skip), q.limit)
    IN [n \in 1..Len(page) |-> StoredDoc(page[n], db.docs[page[n]])]

\* The server warns when no index covers the selector's fields.
IndexWarning == "No matching index found, create an index to optimize query time."
FindWarning(db, q) ==
    IF DOMAIN q.selector # {} /\ \E ix \in db.indexes : DOMAIN q.selector \subseteq Range(ix.fields)
    THEN None ELSE Some(IndexWarning)

----------------------------------------------------------------------------
(* The driver (the couchdb package), one operator per call the source      *)
(* makes.  Each takes the result r of the statement before it in the try   *)
(* block: an exception already raised passes through, otherwise the call   *)
(* acts on the world r.w.  w.up says whether the server answers during     *)
(* this call; w.sig is how this driver signals a database that does not    *)
(* exist; w.find says whether this driver has Database.find.               *)

IndexNames == <<"auto", "idx">>
DbOrder == <<"db1">>

\* couchdb.Server(self.url): builds the handle, no request; a URL that does
\* not parse raises.
Server_new(r) ==
    IF r.exc # NoExc THEN r
    ELSE IF r.w.urlOk THEN Return(NoVal, r.w)
    ELSE Raise(Exc("ValueError", <<"Invalid URL">>), r.w)

\* self.couch = ...
AssignCouch(r) ==
    IF r.exc # NoExc THEN r ELSE Return(NoVal, [r.w EXCEPT !.couch = "Server"])

\* self.couch.version(): GET /
Server_version(r) ==
    IF r.exc # NoExc THEN r
    ELSE IF r.w.up THEN Return([version |-> "3"], Send(r.w, "GET", <<>>, NoBody))
    ELSE Raise(ConnRefused, Send(r.w, "GET", <<>>, NoBody))

\* list(server): GET /_all_dbs
Server_iter(r) ==
    IF r.exc # NoExc THEN r
    ELSE IF r.w.up
         THEN Return([names |-> SelectSeq(DbOrder, LAMBDA n : n \in DOMAIN r.w.dbs)],
                     Send(r.w, "GET", <<"_all_dbs">>, NoBody))
    ELSE Raise(ConnRefused, Send(r.w, "GET", <<"_all_dbs">>, NoBody))

\* server.create(name): PUT /{name}
Server_create(r, name) ==
    IF r.exc # NoExc THEN r
    ELSE IF ~r.w.up THEN Raise(ConnRefused, Send(r.w, "PUT", <<name>>, NoBody))
    ELSE IF name \in DOMAIN r.w.dbs THEN Raise(HttpPrecondition, Send(r.w, "PUT", <<name>>, NoBody))
    ELSE Return(NoVal, [Send(r.w, "PUT", <<name>>, NoBody) EXCEPT !.dbs = (name :> NewDb) @@ @])

\* server.delete(name): DELETE /{name}
Server_delete(r, name) ==
    IF r.exc # NoExc THEN r
    ELSE IF ~r.w.up THEN Raise(ConnRefused, Send(r.w, "DELETE", <<name>>, NoBody))
    ELSE IF name \notin DOMAIN r.w.dbs
         THEN Raise(HttpNotFound("Database does not exist."), Send(r.w, "DELETE", <<name>>, NoBody))
    ELSE Return(NoVal, [Send(r.w, "DELETE", <<name>>, NoBody)
                           EXCEPT !.dbs = [n \in DOMAIN @ \ {name} |-> @[n]]])

\* The signal of a database that does not exist: a key-lookup failure, or the
\* HTTP layer's 404.
MissingDatabase(sig, name) ==
    IF sig = "KeyError" THEN PyKeyError(name)
    ELSE HttpNotFound("Database does not exist.")

\* server[database]: HEAD /{database}
Server_getitem(r, name) ==
    IF r.exc # NoExc THEN r
    ELSE IF ~r.w.up THEN Raise(ConnRefused, Send(r.w, "HEAD", <<name>>, NoBody))
    ELSE IF name \notin DOMAIN r.w.dbs
         THEN Raise(MissingDatabase(r.w.sig, name),
                    [Send(r.w, "HEAD", <<name>>, NoBody) EXCEPT !.sigUsed = TRUE])
    ELSE Return([db |-> name], Send(r.w, "HEAD", <<name>>, NoBody))

\* The server's answer to a write of payload doc under id.
PutDoc(w, db, id, doc) ==
    IF ~RevAccepted(w.dbs[db].docs[id], doc) THEN Raise(HttpConflict, w)
    ELSE IF w.dbs[db].docs[id].gen + 1 > MaxGen THEN Raise(Capped, [w EXCEPT !.capped = TRUE])
    ELSE Return([id |-> id, rev |-> RevTok(w.dbs[db].docs[id].gen + 1)],
                [w EXCEPT !.dbs[db].docs[id] =
                     [st |-> "live", gen |-> @.gen + 1, body |-> UserFields(doc)]])

\* db.save(doc): PUT /{db}/{_id} when doc has an _id, POST /{db} otherwise
\* (the server then chooses the id).
Database_save(r, db, doc) ==
    IF r.exc # NoExc THEN r
    ELSE IF "_id" \in DOMAIN doc
         THEN IF ~r.w.up THEN Raise(ConnRefused, Send(r.w, "PUT", <<db, doc["_id"]>>, doc))
              ELSE PutDoc(Send(r.w, "PUT", <<db, doc["_id"]>>, doc), db, doc["_id"], doc)
    ELSE IF ~r.w.up THEN Raise(ConnRefused, Send(r.w, "POST", <<db>>, doc))
    ELSE IF FreshIds(r.w.dbs[db]) = <<>>
         THEN Raise(Capped, [Send(r.w, "POST", <<db>>, doc) EXCEPT !.capped = TRUE])
    ELSE PutDoc(Send(r.w, "POST", <<db>>, doc), db, FreshIds(r.w.dbs[db])[1], doc)

\* The 404 of a document that is absent or deleted.
DocNotFound(d) == HttpNotFound(IF d.st = "deleted" THEN "deleted" ELSE "missing")

\* db[doc_id]: GET /{db}/{doc_id}
Database_getitem(r, db, id) ==
    IF r.exc # NoExc THEN r
    ELSE IF ~r.w.up THEN Raise(ConnRefused, Send(r.w, "GET", <<db, id>>, NoBody))
    ELSE IF r.w.dbs[db].docs[id].st = "live"
         THEN Return(StoredDoc(id, r.w.dbs[db].docs[id]), Send(r.w, "GET", <<db, id>>, NoBody))
    ELSE Raise(DocNotFound(r.w.dbs[db].docs[id]), Send(r.w, "GET", <<db, id>>, NoBody))

\* The server's answer to DELETE /{db}/{id}?rev={rev}: it looks the document
\* up first (404 when it is absent or deleted) and then checks the revision
\* (409).
DeleteDoc(w, db, id, rev) ==
    IF w.dbs[db].docs[id].st # "live" THEN Raise(DocNotFound(w.dbs[db].docs[id]), w)
    ELSE IF rev # RevTok(w.dbs[db].docs[id].gen) THEN Raise(HttpConflict, w)
    ELSE IF w.dbs[db].docs[id].gen + 1 > MaxGen THEN Raise(Capped, [w EXCEPT !.capped = TRUE])
    ELSE Return(NoVal, [w EXCEPT !.dbs[db].docs[id] =
                           [st |-> "deleted", gen |-> @.gen + 1, body |-> Empty]])

\* db.delete(doc): DELETE /{db}/{_id}?rev={_rev}
Database_delete(r, db, doc) ==
    IF r.exc # NoExc THEN r
    ELSE IF ~r.w.up
         THEN Raise(ConnRefused, Send(r.w, "DELETE", <<db, doc["_id"]>>, [rev |-> doc["_rev"]]))
    ELSE DeleteDoc(Send(r.w, "DELETE", <<db, doc["_id"]>>, [rev |-> doc["_rev"]]),
                   db, doc["_id"], doc["_rev"])

\* What Resource.get_json and Resource.post_json return: the tuple
\* (status, headers, data), data being the decoded JSON body.  Item is
\* Python's zero-based indexing, DictGet is dict.get, and JsonNull is the
\* null that json.dumps writes for None.
Headers == ("content-type" :> "application/json") @@ ("server" :> "CouchDB")
JsonResponse(r) == IF r.exc # NoExc THEN r ELSE Return(<<200, Headers, r.val>>, r.w)
Item(result, i) == result[i + 1]
DictGet(d, k, default) == IF k \in DOMAIN d THEN d[k] ELSE default
JsonNull == "null"

\* The server's answer to POST /{db}/_find.
PostFind(w, db, q) ==
    IF ~w.up THEN Raise(ConnRefused, w)
    ELSE IF ~ValidSelector(q.selector) THEN Raise(HttpBadRequest, w)
    ELSE Return([docs |-> FindDocs(w.dbs[db], q)] @@ Field("warning", FindWarning(w.dbs[db], q)), w)

\* map(Document, data.get('docs', [])): find returns the documents only.
DocsOnly(r) == IF r.exc # NoExc THEN r ELSE Return([docs |-> r.val.docs], r.w)

\* db.find(mango_query): a driver without find raises AttributeError; one
\* with it posts to _find.
Database_find(r, db, q) ==
    IF r.exc # NoExc THEN r
    ELSE IF r.w.find = "AttributeError"
         THEN Raise(Exc("AttributeError", <<"'Database' object has no attribute 'find'">>),
                    [r.w EXCEPT !.findUsed = TRUE])
    ELSE DocsOnly(PostFind(Send([r.w EXCEPT !.findUsed = TRUE], "POST", <<db, "_find">>, q), db, q))

\* db.resource.post_json('_find', body=mango_query): the raw answer.
Resource_post_find(r, db, q) ==
    IF r.exc # NoExc THEN r
    ELSE JsonResponse(PostFind(Send(r.w, "POST", <<db, "_find">>, q), db, q))

\* A row of _all_docs.
ViewRow(db, i, include_docs) ==
    [id |-> i, key |-> i, value |-> [rev |-> RevTok(db.docs[i].gen)]]
    @@ (IF include_docs THEN [doc |-> StoredDoc(i, db.docs[i])] ELSE Empty)
ViewIds(db, params) ==
    IF "limit" \in DOMAIN params THEN Take(LiveIds(db), params["limit"]) ELSE LiveIds(db)

\* db.view('_all_docs', **params): GET /{db}/_all_docs
Database_view(r, db, params) ==
    IF r.exc # NoExc THEN r
    ELSE IF ~r.w.up THEN Raise(ConnRefused, Send(r.w, "GET", <<db, "_all_docs">>, params))
    ELSE Return([rows |-> [n \in 1..Len(ViewIds(r.w.dbs[db], params)) |->
                              ViewRow(r.w.dbs[db], ViewIds(r.w.dbs[db], params)[n],
                                      params["include_docs"])]],
                Send(r.w, "GET", <<db, "_all_docs">>, params))

\* The index a specification names.
IndexOf(index_spec) ==
    [fields |-> index_spec["index"]["fields"],
     name |-> IF "name" \in DOMAIN index_spec THEN index_spec["name"] ELSE "auto"]

\* db.resource.post_json('_index', body=index_spec): POST /{db}/_index
Resource_post_index(r, db, index_spec) ==
    IF r.exc # NoExc THEN r
    ELSE IF ~r.w.up THEN Raise(ConnRefused, Send(r.w, "POST", <<db, "_index">>, index_spec))
    ELSE JsonResponse(
            Return([result |-> IF IndexOf(index_spec) \in r.w.dbs[db].indexes
                               THEN "exists" ELSE "created",
                    id |-> "_design/" \o IndexOf(index_spec).name,
                    name |-> IndexOf(index_spec).name],
                   [Send(r.w, "POST", <<db, "_index">>, index_spec)
                       EXCEPT !.dbs[db].indexes = @ \cup {IndexOf(index_spec)}]))

\* The indexes of db: the built-in one on _id, then the created ones by name.
IndexList(db) ==
    <<[fields |-> <<"_id">>, name |-> "_all_docs"]>>
    \o [n \in 1..Len(SelectSeq(IndexNames, LAMBDA x : \E ix \in db.indexes : ix.name = x)) |->
           CHOOSE ix \in db.indexes :
               ix.name = SelectSeq(IndexNames, LAMBDA x : \E iy \in db.indexes : iy.name = x)[n]]

\* db.resource.get_json('_index'): GET /{db}/_index
Resource_get_index(r, db) ==
    IF r.exc # NoExc THEN r
    ELSE IF ~r.w.up THEN Raise(ConnRefused, Send(r.w, "GET", <<db, "_index">>, NoBody))
    ELSE JsonResponse(
            Return([indexes |-> IndexList(r.w.dbs[db]), total_rows |-> Len(IndexList(r.w.dbs[db]))],
                   Send(r.w, "GET", <<db, "_index">>, NoBody)))

----------------------------------------------------------------------------
(* The connection holder.                                                  *)

\* except Exception as e: raise ConnectionError(f"Failed to connect ...")
ConnectFailed(r) ==
    IF r.exc = NoExc THEN Return([ok |-> TRUE], r.w)
    ELSE Raise(Exc("ConnectionError",
                   <<"Failed to connect to CouchDB at ", Url, ": ">> \o r.exc.msg), r.w)

\* connect(): the handle is assigned before the liveness check; any failure
\* is re-raised as ConnectionError carrying the URL and the cause.
connect(r) ==
    IF r.exc # NoExc THEN r ELSE ConnectFailed(Server_version(AssignCouch(Server_new(r))))

\* A _get_server that connects on every call, whether a handle is held or not.
ConnectAlways(r) == IF r.exc # NoExc THEN r ELSE connect(r)

\* if self.couch is None: self.connect()
ConnectIfNeeded(r) ==
    IF r.exc # NoExc THEN r
    ELSE IF r.w.couch = "None" THEN connect(r) ELSE r

\* assert self.couch is not None; return self.couch
ReturnServer(r) ==
    IF r.exc # NoExc THEN r
    ELSE IF r.w.couch = "None" THEN Raise(Exc("AssertionError", <<>>), r.w)
    ELSE Return([server |-> r.w.couch], r.w)

\* _get_server(): connect only when no handle is held.
_get_server(r) == ReturnServer(ConnectIfNeeded(r))

\* self._get_server()[database]
GetDatabase(w, database) == Server_getitem(_get_server(Return(NoVal, w)), database)

----------------------------------------------------------------------------
(* Responses.  A handler ends by returning a list of text blocks (Done) or *)
(* by letting an exception escape (Escape).                                *)

Str(pieces) == [fmt |-> pieces, json |-> NoVal]
json_dumps(r) == [fmt |-> <<>>, json |-> r]
TextContent(text) == [type |-> "text", text |-> text]
Done(text, w) == [raised |-> NoExc, blocks |-> <<TextContent(text)>>, w |-> w]
Escape(exc, w) == [raised |-> exc, blocks |-> <<>>, w |-> w]

NoMatchNote == "No documents matched the query. To verify documents exist, use couchdb_list_documents with include_docs=true"

Truthy(o) == o # None /\ o[1] # ""

----------------------------------------------------------------------------
(* The operation handlers.  Each is its try block (the driver calls, r)    *)
(* followed by its return statement and except clauses (the ...Reply).     *)

ListDatabasesReply(r) ==
    IF r.exc # NoExc THEN Escape(r.exc, r.w)
    ELSE Done(json_dumps([databases |-> r.val.names, count |-> Len(r.val.names)]), r.w)

_list_databases(w) ==
    ListDatabasesReply(Server_iter(_get_server(Return(NoVal, w))))

\* _create_database without its "except couchdb.PreconditionFailed" clause.
CreateDatabaseReplyUnmapped(name, r) ==
    IF r.exc = NoExc THEN Done(Str(<<"Database '", name, "' created successfully">>), r.w)
    ELSE Escape(r.exc, r.w)

CreateDatabaseReply(name, r) ==
    IF r.exc = NoExc THEN Done(Str(<<"Database '", name, "' created successfully">>), r.w)
    ELSE IF r.exc.type = "PreconditionFailed"
         THEN Done(Str(<<"Database '", name, "' already exists">>), r.w)
    ELSE Escape(r.exc, r.w)

_create_database(w, name) ==
    CreateDatabaseReply(name, Server_create(_get_server(Return(NoVal, w)), name))

DeleteDatabaseReply(name, r) ==
    IF r.exc = NoExc THEN Done(Str(<<"Database '", name, "' deleted successfully">>), r.w)
    ELSE IF r.exc.type = "ResourceNotFound"
         THEN Done(Str(<<"Database '", name, "' not found">>), r.w)
    ELSE Escape(r.exc, r.w)

_delete_database(w, name) ==
    DeleteDatabaseReply(name, Server_delete(_get_server(Return(NoVal, w)), name))

\* {"_id": doc_id, **document}: the keys of document come last and win.
WithDocId(doc_id, document) == document @@ ("_id" :> doc_id)

CreateDocumentReply(database, r) ==
    IF r.exc = NoExc
    THEN Done(json_dumps([id |-> r.val.id, rev |-> r.val.rev,
                          message |-> <<"Document created successfully">>]), r.w)
    ELSE IF r.exc.type = "KeyError"
         THEN Done(Str(<<"Database '", database, "' not found">>), r.w)
    ELSE Done(Str(<<"Error creating document: ">> \o r.exc.msg), r.w)

_create_document(w, database, document, doc_id) ==
    CreateDocumentReply(database,
        IF Truthy(doc_id)
        THEN Database_save(GetDatabase(w, database), database, WithDocId(doc_id[1], document))
        ELSE Database_save(GetDatabase(w, database), database, document))

\* _get_document returning the document without the fields the server adds.
GetDocumentReplyBodyOnly(database, doc_id, r) ==
    IF r.exc = NoExc THEN Done(json_dumps(UserFields(r.val)), r.w)
    ELSE IF r.exc.type = "KeyError"
         THEN Done(Str(<<"Database '", database, "' or document '", doc_id, "' not found">>), r.w)
    ELSE IF r.exc.type = "ResourceNotFound"
         THEN Done(Str(<<"Document '", doc_id, "' not found">>), r.w)
    ELSE Escape(r.exc, r.w)

GetDocumentReply(database, doc_id, r) ==
    IF r.exc = NoExc THEN Done(json_dumps(r.val), r.w)
    ELSE IF r.exc.type = "KeyError"
         THEN Done(Str(<<"Database '", database, "' or document '", doc_id, "' not found">>), r.w)
    ELSE IF r.exc.type = "ResourceNotFound"
         THEN Done(Str(<<"Document '", doc_id, "' not found">>), r.w)
    ELSE Escape(r.exc, r.w)

_get_document(w, database, doc_id) ==
    GetDocumentReply(database, doc_id,
        Database_getitem(GetDatabase(w, database), database, doc_id))

\* if "_id" not in document: document["_id"] = doc_id
EnsureId(document, doc_id) ==
    IF "_id" \notin DOMAIN document THEN ("_id" :> doc_id) @@ document ELSE document

\* _update_document answering a save that went through as an error.
UpdateDocumentReplyMisreported(database, r) ==
    IF r.exc = NoExc THEN Done(Str(<<"Error updating document: ", "saved">>), r.w)
    ELSE IF r.exc.type = "KeyError"
         THEN Done(Str(<<"Database '", database, "' not found">>), r.w)
    ELSE IF r.exc.type = "ResourceConflict"
         THEN Done(Str(<<"Document update conflict - document was modified, please get the latest revision">>), r.w)
    ELSE Done(Str(<<"Error updating document: ">> \o r.exc.msg), r.w)

UpdateDocumentReply(database, r) ==
    IF r.exc = NoExc
    THEN Done(json_dumps([id |-> r.val.id, rev |-> r.val.rev,
                          message |-> <<"Document updated successfully">>]), r.w)
    ELSE IF r.exc.type = "KeyError"
         THEN Done(Str(<<"Database '", database, "' not found">>), r.w)
    ELSE IF r.exc.type = "ResourceConflict"
         THEN Done(Str(<<"Document update conflict - document was modified, please get the latest revision">>), r.w)
    ELSE Done(Str(<<"Error updating document: ">> \o r.exc.msg), r.w)

_update_document(w, database, doc_id, document) ==
    UpdateDocumentReply(database,
        Database_save(GetDatabase(w, database), database, EnsureId(document, doc_id)))

\* _delete_document without its "except couchdb.ResourceNotFound" clause.
DeleteDocumentReplyUnmapped(database, doc_id, r) ==
    IF r.exc = NoExc THEN Done(Str(<<"Document '", doc_id, "' deleted successfully">>), r.w)
    ELSE IF r.exc.type = "KeyError"
         THEN Done(Str(<<"Database '", database, "' not found">>), r.w)
    ELSE IF r.exc.type = "ResourceConflict"
         THEN Done(Str(<<"Document delete conflict - revision mismatch">>), r.w)
    ELSE Escape(r.exc, r.w)

DeleteDocumentReply(database, doc_id, r) ==
    IF r.exc = NoExc THEN Done(Str(<<"Document '", doc_id, "' deleted successfully">>), r.w)
    ELSE IF r.exc.type = "KeyError"
         THEN Done(Str(<<"Database '", database, "' not found">>), r.w)
    ELSE IF r.exc.type = "ResourceNotFound"
         THEN Done(Str(<<"Document '", doc_id, "' not found">>), r.w)
    ELSE IF r.exc.type = "ResourceConflict"
         THEN Done(Str(<<"Document delete conflict - revision mismatch">>), r.w)
    ELSE Escape(r.exc, r.w)

_delete_document(w, database, doc_id, rev) ==
    DeleteDocumentReply(database, doc_id,
        Database_delete(GetDatabase(w, database), database, [_id |-> doc_id, _rev |-> rev]))

\* mango_query of _search_documents and of _search_documents_fallback.
PrimaryQuery(query, limit, skip) == [selector |-> query, limit |-> limit, skip |-> skip]
\* A fallback that asks with the defaults instead of the caller's limit and skip.
FallbackQueryDefaults(query, limit, skip) ==
    [selector |-> query, limit |-> DefaultLimit, skip |-> DefaultSkip]
FallbackQuery(query, limit, skip) == [selector |-> query, limit |-> limit, skip |-> skip]

\* response["note"] when no document is returned.
SearchNote(docs) == IF Len(docs) = 0 THEN [note |-> NoMatchNote] ELSE Empty

\* result[1].get("docs", []) and result[1].get("warning", None): result[1]
\* is the second item of the tuple (status, headers, data), the headers.
FallbackDocs(result) == DictGet(Item(result, 1), "docs", <<>>)
FallbackWarning(result) ==
    IF "warning" \in DOMAIN Item(result, 1) THEN Some(Item(result, 1)["warning"]) ELSE None

\* if warning: response["warning"] = warning
SearchWarning(warning) == IF Truthy(warning) THEN [warning |-> warning[1]] ELSE Empty

FallbackReply(r) ==
    IF r.exc = NoExc
    THEN Done(json_dumps([docs |-> FallbackDocs(r.val), count |-> Len(FallbackDocs(r.val))]
                         @@ SearchWarning(FallbackWarning(r.val))
                         @@ SearchNote(FallbackDocs(r.val))), r.w)
    ELSE Done(Str(<<"Error in fallback search: ">> \o r.exc.msg), r.w)

_search_documents_fallback(w, database, query, limit, skip) ==
    FallbackReply(
        Resource_post_find(GetDatabase(w, database), database, FallbackQuery(query, limit, skip)))

\* A handler that takes the fallback after any failure of the driver call.
LeadsToFallbackAlways(exc) == exc.type # "KeyError"

\* except AttributeError: the only failure that leads to the fallback.
LeadsToFallback(exc) == exc.type = "AttributeError"

SearchReply(database, query, limit, skip, r) ==
    IF r.exc = NoExc
    THEN Done(json_dumps([docs |-> r.val.docs, count |-> Len(r.val.docs)]
                         @@ SearchNote(r.val.docs)), r.w)
    ELSE IF r.exc.type = "KeyError"
         THEN Done(Str(<<"Database '", database, "' not found">>), r.w)
    ELSE IF LeadsToFallback(r.exc)
         THEN _search_documents_fallback(r.w, database, query, limit, skip)
    ELSE Done(Str(<<"Error searching documents: ">> \o r.exc.msg), r.w)

_search_documents(w, database, query, limit, skip) ==
    SearchReply(database, query, limit, skip,
        Database_find(GetDatabase(w, database), database, PrimaryQuery(query, limit, skip)))

\* The loop over the rows of the view.
ListedDocs(rows, include_docs) ==
    [n \in 1..Len(rows) |->
        IF include_docs THEN rows[n]["doc"]
        ELSE [id |-> rows[n].id, key |-> rows[n].key, value |-> rows[n].value]]

ListDocumentsReply(database, include_docs, r) ==
    IF r.exc = NoExc
    THEN Done(json_dumps([documents |-> ListedDocs(r.val.rows, include_docs),
                          count |-> Len(r.val.rows)]), r.w)
    ELSE IF r.exc.type = "KeyError"
         THEN Done(Str(<<"Database '", database, "' not found">>), r.w)
    ELSE Done(Str(<<"Error listing documents: ">> \o r.exc.msg), r.w)

_list_documents(w, database, limit, include_docs) ==
    ListDocumentsReply(database, include_docs,
        Database_view(GetDatabase(w, database), database,
                      [include_docs |-> include_docs] @@ Field("limit", limit)))

\* index_spec of _create_index.
IndexSpec(fields, index_name) ==
    [index |-> [fields |-> fields], type |-> "json"]
    @@ (IF Truthy(index_name) THEN [name |-> index_name[1]] ELSE Empty)

CreateIndexReply(database, fields, r) ==
    IF r.exc = NoExc
    THEN Done(json_dumps([result |-> DictGet(Item(r.val, 1), "result", JsonNull),
                          id |-> DictGet(Item(r.val, 1), "id", JsonNull),
                          name |-> DictGet(Item(r.val, 1), "name", JsonNull),
                          message |-> <<"Index created successfully on fields: ">> \o fields]), r.w)
    ELSE IF r.exc.type = "KeyError"
         THEN Done(Str(<<"Database '", database, "' not found">>), r.w)
    ELSE Done(Str(<<"Error creating index: ">> \o r.exc.msg), r.w)

_create_index(w, database, fields, index_name) ==
    CreateIndexReply(database, fields,
        Resource_post_index(GetDatabase(w, database), database, IndexSpec(fields, index_name)))

ListIndexesReply(database, r) ==
    IF r.exc = NoExc
    THEN Done(json_dumps([indexes |-> DictGet(Item(r.val, 1), "indexes", <<>>),
                          count |-> Len(DictGet(Item(r.val, 1), "indexes", <<>>)),
                          total_rows |-> DictGet(Item(r.val, 1), "total_rows", JsonNull)]), r.w)
    ELSE IF r.exc.type = "KeyError"
         THEN Done(Str(<<"Database '", database, "' not found">>), r.w)
    ELSE Done(Str(<<"Error listing indexes: ">> \o r.exc.msg), r.w)

_list_indexes(w, database) ==
    ListIndexesReply(database,
        Resource_get_index(GetDatabase(w, database), database))

----------------------------------------------------------------------------
(* The dispatcher.                                                         *)

\* arguments[k] for each k of keys, in order: the first absent key raises.
MissingKeys(arguments, keys) == SelectSeq(keys, LAMBDA k : k \notin DOMAIN arguments)
GetArg(arguments, k) == IF k \in DOMAIN arguments THEN Some(arguments[k]) ELSE None
GetArgOr(arguments, k, default) == IF k \in DOMAIN arguments THEN arguments[k] ELSE default

\* The body of call_tool's try block.
Dispatch(w, name, arguments) ==
    LET a == arguments
        need(keys, h) == IF MissingKeys(a, keys) # <<>>
                         THEN Escape(PyKeyError(MissingKeys(a, keys)[1]), w) ELSE h
    IN CASE name = "couchdb_list_databases" -> _list_databases(w)
         [] name = "couchdb_create_database" ->
                need(<<"name">>, _create_database(w, a["name"]))
         [] name = "couchdb_delete_database" ->
                need(<<"name">>, _delete_database(w, a["name"]))
         [] name = "couchdb_create_document" ->
                need(<<"database", "document">>,
                     _create_document(w, a["database"], a["document"], GetArg(a, "doc_id")))
         [] name = "couchdb_get_document" ->
                need(<<"database", "doc_id">>, _get_document(w, a["database"], a["doc_id"]))
         [] name = "couchdb_update_document" ->
                need(<<"database", "doc_id", "document">>,
                     _update_document(w, a["database"], a["doc_id"], a["document"]))
         [] name = "couchdb_delete_document" ->
                need(<<"database", "doc_id", "rev">>,
                     _delete_document(w, a["database"], a["doc_id"], a["rev"]))
         [] name = "couchdb_search_documents" ->
                need(<<"database", "query">>,
                     _search_documents(w, a["database"], a["query"],
                                       GetArgOr(a, "limit", DefaultLimit),
                                       GetArgOr(a, "skip", DefaultSkip)))
         [] name = "couchdb_list_documents" ->
                need(<<"database">>,
                     _list_documents(w, a["database"], GetArg(a, "limit"),
                                     GetArgOr(a, "include_docs", FALSE)))
         [] name = "couchdb_create_index" ->
                need(<<"database", "fields">>,
                     _create_index(w, a["database"], a["fields"], GetArg(a, "index_name")))
         [] name = "couchdb_list_indexes" ->
                need(<<"database">>, _list_indexes(w, a["database"]))
         [] OTHER -> Escape(Exc("ValueError", <<"Unknown tool: ", name>>), w)

\* A dispatcher whose except clause names KeyError and ValueError only: what
\* call_tool would be without its catch-all.
CatchLookupErrors(h) ==
    IF h.raised.type \in {"KeyError", "ValueError"}
    THEN Done(Str(<<"Error: ">> \o h.raised.msg), h.w) ELSE h

\* except Exception as e: return [TextContent(type="text", text=f"Error: {str(e)}")]
CatchAll(h) ==
    IF h.raised = NoExc THEN h ELSE Done(Str(<<"Error: ">> \o h.raised.msg), h.w)

call_tool(w, name, arguments) == CatchAll(Dispatch(w, name, arguments))

\* main(): the initial connect; a ConnectionError is printed as a warning and
\* the serving loop is entered either way.
MainCatch(r) ==
    IF r.exc # NoExc /\ r.exc.type # "ConnectionError" THEN Escape(r.exc, r.w)
    ELSE [raised |-> NoExc, blocks |-> <<>>, w |-> r.w]

main(w) == MainCatch(connect(Return(NoVal, w)))

----------------------------------------------------------------------------
(* The state machine.                                                      *)

VARIABLES
    pc,         \* "main" at process start, "idle" between calls, "returned" after one
    couch,      \* self.couch: "None" or "Server"
    urlOk,      \* whether the configured URL parses
    reachable,  \* whether the database server answers
    dbs,        \* the server's databases: name -> [docs, indexes]
    call,       \* the last call: [name, arguments]
    env,        \* what the driver did in the last call: [sig, find]
    resp,       \* what the last call returned: [raised, blocks]
    reqs        \* the requests the last call issued, in order

vars == <<pc, couch, urlOk, reachable, dbs, call, env, resp, reqs>>

Signals == {"KeyError", "ResourceNotFound"}
FindModes == {"ok", "AttributeError"}

World(sig, find) ==
    [couch |-> couch, dbs |-> dbs, reqs |-> <<>>, up |-> reachable, urlOk |-> urlOk,
     sig |-> sig, find |-> find, sigUsed |-> FALSE, findUsed |-> FALSE, capped |-> FALSE]

\* The driver's choices a call can meet: the signal of a missing database
\* when the call names one, the presence of find when the call searches.
SignalChoices(arguments) ==
    IF "database" \in DOMAIN arguments /\ arguments["database"] \notin DOMAIN dbs
    THEN Signals ELSE {"KeyError"}
FindChoices(name) == IF name = "couchdb_search_documents" THEN FindModes ELSE {"ok"}

\* The arguments the calls are drawn from.
Payloads == {Field("_id", i) @@ Field("_rev", r) @@ Field("v", v) :
                i \in Opt(DocIds), r \in Opt(Revs), v \in Opt(Values)}
Selectors == {Empty, [v |-> "x"], [v |-> "y"], ("$bad" :> "x")}
Limits == {1}
Skips == {1}
IndexNameArgs == {"", "idx"}

Arguments(name) ==
    CASE name = "couchdb_list_databases" -> {Empty}
      [] name \in {"couchdb_create_database", "couchdb_delete_database"} ->
            {Empty} \cup {[name |-> n] : n \in DbNames}
      [] name = "couchdb_create_document" ->
            {Empty} \cup {[database |-> n, document |-> d] @@ Field("doc_id", i) :
                             n \in DbNames, d \in Payloads, i \in Opt(DocIds \cup {""})}
      [] name = "couchdb_get_document" ->
            {Empty} \cup {[database |-> n, doc_id |-> i] : n \in DbNames, i \in AllIds}
      [] name = "couchdb_update_document" ->
            {Empty} \cup {[database |-> n, doc_id |-> i, document |-> d] :
                             n \in DbNames, i \in DocIds, d \in Payloads}
      [] name = "couchdb_delete_document" ->
            {Empty} \cup {[database |-> n, doc_id |-> i, rev |-> r] :
                             n \in DbNames, i \in DocIds, r \in Revs}
      [] name = "couchdb_search_documents" ->
            {Empty} \cup {[database |-> n, query |-> q] @@ Field("limit", l) @@ Field("skip", k) :
                             n \in DbNames, q \in Selectors, l \in Opt(Limits), k \in Opt(Skips)}
      [] name = "couchdb_list_documents" ->
            {Empty} \cup {[database |-> n] @@ Field("limit", l) @@ Field("include_docs", b) :
                             n \in DbNames, l \in Opt(Limits), b \in Opt(BOOLEAN)}
      [] name = "couchdb_create_index" ->
            {Empty} \cup {[database |-> n, fields |-> IndexFields] @@ Field("index_name", x) :
                             n \in DbNames, x \in Opt(IndexNameArgs)}
      [] name = "couchdb_list_indexes" ->
            {Empty} \cup {[database |-> n] : n \in DbNames}
      [] OTHER -> {Empty}

NoCall == [name |-> "", arguments |-> Empty]
NoEnv == [sig |-> "unused", find |-> "unused"]
NoResp == [raised |-> NoExc, blocks |-> <<>>]

Init ==
    /\ pc = "main"
    /\ couch = "None"
    /\ urlOk \in BOOLEAN
    /\ reachable \in BOOLEAN
    /\ dbs = [n \in {} |-> NewDb]
    /\ call = NoCall
    /\ env = NoEnv
    /\ resp = NoResp
    /\ reqs = <<>>

\* What a step that runs h leaves behind.
Finish(name, arguments, sig, find, h) ==
    /\ ~h.w.capped
    /\ pc' = "returned"
    /\ couch' = h.w.couch
    /\ dbs' = h.w.dbs
    /\ reqs' = h.w.reqs
    /\ call' = [name |-> name, arguments |-> arguments]
    /\ env' = [sig |-> IF h.w.sigUsed THEN sig ELSE "unused",
               find |-> IF h.w.findUsed THEN find ELSE "unused"]
    /\ resp' = [raised |-> h.raised, blocks |-> h.blocks]
    /\ UNCHANGED <<urlOk, reachable>>

\* main() up to the serving loop.
Start ==
    /\ pc = "main"
    /\ Finish("main", Empty, "KeyError", "ok", main(World("KeyError", "ok")))

\* One tool call, from the dispatcher's entry to its return.
Call(name) ==
    \E arguments \in Arguments(name) :
       \E sig \in SignalChoices(arguments), find \in FindChoices(name) :
          Finish(name, arguments, sig, find, call_tool(World(sig, find), name, arguments))

ListDatabases == pc = "idle" /\ Call("couchdb_list_databases")
CreateDatabase == pc = "idle" /\ Call("couchdb_create_database")
DeleteDatabase == pc = "idle" /\ Call("couchdb_delete_database")
CreateDocument == pc = "idle" /\ Call("couchdb_create_document")
GetDocument == pc = "idle" /\ Call("couchdb_get_document")
UpdateDocument == pc = "idle" /\ Call("couchdb_update_document")
DeleteDocument == pc = "idle" /\ Call("couchdb_delete_document")
SearchDocuments == pc = "idle" /\ Call("couchdb_search_documents")
ListDocuments == pc = "idle" /\ Call("couchdb_list_documents")
CreateIndex == pc = "idle" /\ Call("couchdb_create_index")
ListIndexes == pc = "idle" /\ Call("couchdb_list_indexes")
UnknownTool == pc = "idle" /\ Call("couchdb_drop_everything")

\* The serving loop hands the blocks to the caller and waits for the next
\* request; nothing of the call is kept but the handle.
run ==
    /\ pc = "returned"
    /\ resp.raised = NoExc
    /\ pc' = "idle"
    /\ call' = NoCall
    /\ env' = NoEnv
    /\ resp' = NoResp
    /\ reqs' = <<>>
    /\ UNCHANGED <<couch, urlOk, reachable, dbs>>

\* Between two calls the server stops answering, or answers again.
ServerDown ==
    /\ pc = "idle"
    /\ reachable
    /\ reachable' = FALSE
    /\ UNCHANGED <<pc, couch, urlOk, dbs, call, env, resp, reqs>>

ServerUp ==
    /\ pc = "idle"
    /\ ~reachable
    /\ reachable' = TRUE
    /\ UNCHANGED <<pc, couch, urlOk, dbs, call, env, resp, reqs>>

Next ==
    \/ Start
    \/ run
    \/ ListDatabases
    \/ CreateDatabase
    \/ DeleteDatabase
    \/ CreateDocument
    \/ GetDocument
    \/ UpdateDocument
    \/ DeleteDocument
    \/ SearchDocuments
    \/ ListDocuments
    \/ CreateIndex
    \/ ListIndexes
    \/ UnknownTool
    \/ ServerDown
    \/ ServerUp

Spec == Init /\ [][Next]_vars

----------------------------------------------------------------------------
(* What the properties below read off a state.                             *)

\* The names of the tool catalog and the keys each tool requires
\* (list_tools, "required").
Catalog ==
    {"couchdb_list_databases", "couchdb_create_database", "couchdb_delete_database",
     "couchdb_create_document", "couchdb_get_document", "couchdb_update_document",
     "couchdb_delete_document", "couchdb_search_documents", "couchdb_list_documents",
     "couchdb_create_index", "couchdb_list_indexes"}
RequiredKeys(name) ==
    CASE name \in {"couchdb_create_database", "couchdb_delete_database"} -> <<"name">>
      [] name = "couchdb_create_document" -> <<"database", "document">>
      [] name = "couchdb_get_document" -> <<"database", "doc_id">>
      [] name = "couchdb_update_document" -> <<"database", "doc_id", "document">>
      [] name = "couchdb_delete_document" -> <<"database", "doc_id", "rev">>
      [] name = "couchdb_search_documents" -> <<"database", "query">>
      [] name = "couchdb_create_index" -> <<"database", "fields">>
      [] name \in {"couchdb_list_documents", "couchdb_list_indexes"} -> <<"database">>
      [] OTHER -> <<>>

\* A call of tool name has returned, with every required argument given.
Returned(name) ==
    /\ pc = "returned"
    /\ call.name = name
    /\ MissingKeys(call.arguments, RequiredKeys(name)) = <<>>

\* The text of the (one) block returned, and the object it serializes.
Answer == resp.blocks[1].text
IsJson == Answer.json # NoVal
Says(pieces) == resp.raised = NoExc /\ Len(resp.blocks) = 1 /\ Answer = Str(pieces)

\* The next call, name(arguments), made from this state with the server
\* answering: what it would return and leave behind.
NextCall(name, arguments, sig, find) ==
    call_tool([World(sig, find) EXCEPT !.up = TRUE], name, arguments)

ConflictAdvice == <<"Document update conflict - document was modified, please get the latest revision">>
ConnectFailure(cause) == <<"Failed to connect to CouchDB at ", Url, ": ">> \o cause

----------------------------------------------------------------------------
(* C1.  call_tool never raises past the dispatcher: whatever the tool      *)
(* name, the arguments and the database outcome, it returns a list of text *)
(* blocks.  A name outside the catalog gives "Error: Unknown tool: <name>",*)
(* a missing required key gives "Error: '<key>'", and a connection failure *)
(* in a handler that maps no such failure gives "Error: <message>".        *)

UnmappedHandlers ==
    {"couchdb_list_databases", "couchdb_create_database", "couchdb_delete_database",
     "couchdb_get_document", "couchdb_delete_document"}

C1_NeverRaises ==
    (pc = "returned" /\ call.name # "main") =>
        /\ resp.raised = NoExc
        /\ Len(resp.blocks) = 1
        /\ resp.blocks[1].type = "text"
        /\ (call.name \notin Catalog => Says(<<"Error: ", "Unknown tool: ", call.name>>))
        /\ (MissingKeys(call.arguments, RequiredKeys(call.name)) # <<>> =>
                Says(<<"Error: ">> \o
                     PyKeyError(MissingKeys(call.arguments, RequiredKeys(call.name))[1]).msg))
        /\ (call.name \in UnmappedHandlers /\ Returned(call.name) /\ (~reachable \/ ~urlOk) =>
                \E cause \in {ConnRefused.msg, ConnectFailure(ConnRefused.msg),
                              ConnectFailure(<<"Invalid URL">>)} :
                    Says(<<"Error: ">> \o cause))

\* C1 happens: a call of a name outside the catalog has returned its error block.
C1_Witness ==
    /\ pc = "returned"
    /\ call.name = "couchdb_drop_everything"
    /\ Says(<<"Error: ", "Unknown tool: ", "couchdb_drop_everything">>)

----------------------------------------------------------------------------
(* C2.  For every existing document, update_document with a document      *)
(* whose _rev is missing or is not the document's current revision returns *)
(* the conflict message, leaves the stored documents unchanged and         *)
(* attempts the save exactly once.                                         *)

IsSave(q) == q.method \in {"PUT", "POST"} /\ Len(q.path) >= 1 /\ q.path[Len(q.path)] # "_find"

StaleUpdate(a) ==
    /\ a["database"] \in DOMAIN dbs
    /\ dbs[a["database"]].docs[a["doc_id"]].st = "live"
    /\ \/ "_rev" \notin DOMAIN a["document"]
       \/ a["document"]["_rev"] # RevTok(dbs[a["database"]].docs[a["doc_id"]].gen)

C2_StaleUpdateConflicts ==
    [][(/\ pc = "idle"
        /\ reachable
        /\ call'.name = "couchdb_update_document"
        /\ MissingKeys(call'.arguments, RequiredKeys(call'.name)) = <<>>
        /\ StaleUpdate(call'.arguments))
       => /\ resp'.blocks[1].text = Str(ConflictAdvice)
          /\ dbs'[call'.arguments["database"]].docs[call'.arguments["doc_id"]]
                = dbs[call'.arguments["database"]].docs[call'.arguments["doc_id"]]
          /\ Cardinality({i \in 1..Len(reqs') : IsSave(reqs'[i])}) = 1]_vars

----------------------------------------------------------------------------
(* C3.  A successful create_document with a doc_id argument stores the     *)
(* document under that doc_id and answers with that id, whatever the       *)
(* doc_id and the payload (a payload with its own _id included); without a *)
(* doc_id it answers with a generated id and a rev token.                  *)

C3_CreateUsesDocId ==
    (Returned("couchdb_create_document") /\ IsJson) =>
        IF "doc_id" \in DOMAIN call.arguments
        THEN /\ Answer.json.id = call.arguments["doc_id"]
             /\ call.arguments["doc_id"] \in AllIds
             /\ dbs[call.arguments["database"]].docs[call.arguments["doc_id"]].st = "live"
        ELSE /\ Answer.json.id \in AllIds
             /\ Answer.json.rev \in Revs
----------------------------------------------------------------------------
(* C4.  delete_document with the id of an existing document and its        *)
(* current rev answers "Document '<doc_id>' deleted successfully" and      *)
(* removes the document; the identical call made next answers              *)
(* "Document '<doc_id>' not found" (neither a conflict nor an "Error: ..." *)
(* text).  The server is reachable for both calls.                         *)

DeletesCurrent(a) ==
    /\ a["database"] \in DOMAIN dbs
    /\ dbs[a["database"]].docs[a["doc_id"]].st = "live"
    /\ a["rev"] = RevTok(dbs[a["database"]].docs[a["doc_id"]].gen)

RepeatedDelete(a) ==
    {NextCall("couchdb_delete_document", a, sig, "ok") : sig \in Signals}

C4_DeleteThenNotFound ==
    [][\A a \in Arguments("couchdb_delete_document") \ {Empty} :
        (/\ pc = "idle"
         /\ reachable
         /\ call' = [name |-> "couchdb_delete_document", arguments |-> a]
         /\ DeletesCurrent(a))
        => /\ resp' = [raised |-> NoExc, blocks |->
                         <<TextContent(Str(<<"Document '", a["doc_id"],
                                             "' deleted successfully">>))>>]
           /\ dbs'[a["database"]].docs[a["doc_id"]].st = "deleted"
           /\ \A h \in RepeatedDelete(a)' :
                 /\ h.raised = NoExc
                 /\ h.blocks = <<TextContent(Str(<<"Document '", a["doc_id"],
                                                   "' not found">>))>>
                 /\ h.w.dbs = dbs']_vars

\* C4 happens: the delete of a document that a call with the same id and rev
\* has removed has returned "not found".
C4_Witness ==
    /\ Returned("couchdb_delete_document")
    /\ call.arguments["database"] \in DOMAIN dbs
    /\ dbs[call.arguments["database"]].docs[call.arguments["doc_id"]].st = "deleted"
    /\ call.arguments["rev"] =
          RevTok(dbs[call.arguments["database"]].docs[call.arguments["doc_id"]].gen - 1)
    /\ Says(<<"Document '", call.arguments["doc_id"], "' not found">>)

----------------------------------------------------------------------------
(* C5.  Round trip: after a successful create_document(database, doc[,     *)
(* doc_id]) that returned id and rev, get_document(database, id) made next *)
(* returns the fields of doc with _id equal to id and _rev equal to rev.   *)
(* The server is reachable for the get.                                    *)

\* doc with the injected _id and _rev.
Injected(doc, id, rev) ==
    [k \in DOMAIN doc \cup {"_id", "_rev"} |->
        IF k = "_id" THEN id ELSE IF k = "_rev" THEN rev ELSE doc[k]]

GetCreated ==
    {NextCall("couchdb_get_document",
              [database |-> call.arguments["database"], doc_id |-> Answer.json.id],
              sig, "ok") : sig \in Signals}

C5_RoundTrip ==
    (Returned("couchdb_create_document") /\ IsJson) =>
        \A h \in GetCreated :
            /\ h.raised = NoExc
            /\ h.blocks = <<TextContent(json_dumps(
                   Injected(call.arguments["document"], Answer.json.id, Answer.json.rev)))>>

\* C5 happens: a document with a field of its own has been created and the
\* get that follows returns that field.
C5_Witness ==
    /\ Returned("couchdb_create_document")
    /\ IsJson
    /\ "v" \in DOMAIN call.arguments["document"]
    /\ \E h \in GetCreated :
          h.blocks[1].text.json["v"] = call.arguments["document"]["v"]

----------------------------------------------------------------------------
(* C6.  create_database with the name of a database that an earlier        *)
(* create_database created answers "Database '<name>' already exists", not *)
(* an "Error: ..." text, and leaves the database and its documents         *)
(* unchanged.  The server is reachable.                                    *)

C6_CreateTwice ==
    [][(/\ pc = "idle"
        /\ reachable
        /\ call'.name = "couchdb_create_database"
        /\ MissingKeys(call'.arguments, RequiredKeys(call'.name)) = <<>>
        /\ call'.arguments["name"] \in DOMAIN dbs)
       => /\ resp' = [raised |-> NoExc, blocks |->
                        <<TextContent(Str(<<"Database '", call'.arguments["name"],
                                            "' already exists">>))>>]
          /\ dbs' = dbs]_vars

\* C6 happens: the second create of a database that holds a document has
\* returned "already exists".
C6_Witness ==
    /\ Returned("couchdb_create_database")
    /\ Says(<<"Database '", call.arguments["name"], "' already exists">>)
    /\ call.arguments["name"] \in DOMAIN dbs
    /\ LiveIds(dbs[call.arguments["name"]]) # <<>>
----------------------------------------------------------------------------
(* C7.  For each of create_document, get_document, update_document,        *)
(* delete_document, search_documents, list_documents, create_index and     *)
(* list_indexes, a call naming a database that does not exist answers with *)
(* a "... not found" message (not an "Error ..." text, not a success),     *)
(* whether the driver signals the missing database by a KeyError or by the *)
(* HTTP layer's ResourceNotFound, and creates no database.                 *)

DatabaseTools ==
    {"couchdb_create_document", "couchdb_get_document", "couchdb_update_document",
     "couchdb_delete_document", "couchdb_search_documents", "couchdb_list_documents",
     "couchdb_create_index", "couchdb_list_indexes"}

\* The call met a database that does not exist (the driver signalled it).
MetMissingDatabase == Returned(call.name) /\ call.name \in DatabaseTools /\ env.sig \in Signals

IsNotFoundMessage ==
    /\ resp.raised = NoExc
    /\ Len(resp.blocks) = 1
    /\ ~IsJson
    /\ Len(Answer.fmt) >= 2
    /\ Answer.fmt[1] \in {"Database '", "Document '"}
    /\ Answer.fmt[Len(Answer.fmt)] = "' not found"

C7_MissingDatabaseNotFound ==
    MetMissingDatabase =>
        /\ IsNotFoundMessage
        /\ call.arguments["database"] \notin DOMAIN dbs

----------------------------------------------------------------------------
(* C8.  A successful search_documents whose selector matches no document   *)
(* answers with count 0, an empty docs list and the note that names        *)
(* couchdb_list_documents, on the primary and on the fallback path; when   *)
(* at least one document matches, count is the number of docs returned and *)
(* there is no note.                                                       *)

Matching(db, selector) == {i \in AllIds : db.docs[i].st = "live" /\ Matches(db.docs[i], selector)}

C8_SearchCounts ==
    (Returned("couchdb_search_documents") /\ IsJson) =>
        IF Matching(dbs[call.arguments["database"]], call.arguments["query"]) = {}
        THEN /\ Answer.json.count = 0
             /\ Answer.json.docs = <<>>
             /\ "note" \in DOMAIN Answer.json
             /\ Answer.json.note = NoMatchNote
        ELSE /\ Answer.json.count = Len(Answer.json.docs)
             /\ "note" \notin DOMAIN Answer.json

----------------------------------------------------------------------------
(* C9.  Whenever the server sends a warning with the result of a search,   *)
(* the answer of a successful search_documents carries that warning        *)
(* verbatim, on the primary and on the fallback path.                      *)

C9_WarningSurfaced ==
    (/\ Returned("couchdb_search_documents")
     /\ IsJson
     /\ FindWarning(dbs[call.arguments["database"]],
                    [selector |-> call.arguments["query"]]) # None)
    => /\ "warning" \in DOMAIN Answer.json
       /\ Answer.json.warning = IndexWarning

----------------------------------------------------------------------------
(* C10.  As the claim states it: whenever the primary query of             *)
(* search_documents fails on an existing database, the handler reissues    *)
(* the query (same selector, limit and skip, 25 and 0 by default) on the   *)
(* raw endpoint and answers with the fallback's result.                    *)
(* As the code has it: it does so when the primary query fails because the *)
(* driver has no find (AttributeError); any other failure of the primary   *)
(* query is answered "Error searching documents: <message>" and nothing is *)
(* reissued.                                                               *)

\* The primary query was attempted and failed.
PrimaryFailed ==
    /\ Returned("couchdb_search_documents")
    /\ env.find \in FindModes
    /\ (env.find = "AttributeError" \/ ~ValidSelector(call.arguments["query"]))

FindRequests == SelectSeq(reqs, LAMBDA q : q.method = "POST" /\ q.path[Len(q.path)] = "_find")

\* What the fallback answers to this call's arguments.
FallbackAnswer ==
    _search_documents_fallback(World("KeyError", "ok"), call.arguments["database"],
                               call.arguments["query"],
                               IF "limit" \in DOMAIN call.arguments THEN call.arguments["limit"] ELSE 25,
                               IF "skip" \in DOMAIN call.arguments THEN call.arguments["skip"] ELSE 0)

FellBack ==
    /\ reqs[Len(reqs)] =
          Request("POST", <<call.arguments["database"], "_find">>,
                  [selector |-> call.arguments["query"],
                   limit |-> IF "limit" \in DOMAIN call.arguments THEN call.arguments["limit"] ELSE 25,
                   skip |-> IF "skip" \in DOMAIN call.arguments THEN call.arguments["skip"] ELSE 0])
    /\ resp.raised = NoExc
    /\ resp.blocks = FallbackAnswer.blocks

C10_FallbackOnAnyFailure == PrimaryFailed => FellBack

C10_FallbackOnMissingFind ==
    PrimaryFailed =>
        IF env.find = "AttributeError"
        THEN FellBack /\ Len(FindRequests) = 1
        ELSE /\ Len(Answer.fmt) >= 1
             /\ Answer.fmt[1] = "Error searching documents: "
             /\ Len(FindRequests) = 1

\* C10 happens: a search with a limit and a skip of its own met a driver
\* without find and returned the fallback's answer.
C10_Witness ==
    /\ PrimaryFailed
    /\ env.find = "AttributeError"
    /\ {"limit", "skip"} \subseteq DOMAIN call.arguments
    /\ IsJson
    /\ FellBack
----------------------------------------------------------------------------
(* C11.  When the connect of process start fails, startup goes on to the   *)
(* serving loop, the handle is still unset (self.couch is None), and the   *)
(* first tool call makes a fresh connect attempt (the liveness check       *)
(* GET /) before its operation; if the server is still unreachable its     *)
(* answer reports the connection failure with the URL and the cause.       *)

\* main has returned from a connect that failed.
StartupConnectFailed ==
    pc = "returned" /\ call.name = "main" /\ (~urlOk \/ ~reachable)

\* The catalog calls with every required argument.
CompleteCalls ==
    {c \in UNION {{[name |-> n, arguments |-> a] : a \in Arguments(n)} : n \in Catalog} :
        MissingKeys(c.arguments, RequiredKeys(c.name)) = <<>>}

\* The first tool call, c, made from this state with the server answering
\* (up) or not.
FirstCall(c, up) == call_tool([World("KeyError", "ok") EXCEPT !.up = up], c.name, c.arguments)

IsLivenessCheck(q) == q = Request("GET", <<>>, NoBody)

ReportsConnectFailure(h) ==
    /\ h.raised = NoExc
    /\ Len(h.blocks) = 1
    /\ \E i \in 1..Len(h.blocks[1].text.fmt) - 1 :
          /\ h.blocks[1].text.fmt[i] = "Failed to connect to CouchDB at "
          /\ h.blocks[1].text.fmt[i + 1] = Url

C11_FailedStartupReconnects ==
    StartupConnectFailed =>
        /\ resp.raised = NoExc
        /\ ENABLED run
        /\ couch = "None"
        /\ \A c \in CompleteCalls : \A up \in BOOLEAN :
              /\ Len(FirstCall(c, up).w.reqs) >= 1 => IsLivenessCheck(FirstCall(c, up).w.reqs[1])
              /\ urlOk => Len(FirstCall(c, up).w.reqs) >= 1
              /\ ~up => ReportsConnectFailure(FirstCall(c, up))
----------------------------------------------------------------------------
(* C12.  Once the handle is set (self.couch is not None) it is never unset *)
(* and never assigned again, and no later tool call makes the liveness     *)
(* check: _get_server returns the handle without contacting the server, so *)
(* a server that stops answering later shows only as the failure of the    *)
(* call's own first request, not as a connection failure.                  *)

C12_HandleKept ==
    [][couch = "Server" =>
          /\ couch' = "Server"
          /\ pc = "idle" /\ pc' = "returned" =>
                /\ \A i \in 1..Len(reqs') : ~IsLivenessCheck(reqs'[i])
                /\ ~ReportsConnectFailure(resp')
                /\ ~reachable => Len(reqs') <= 1]_vars

\* C12 happens: with the handle set and a database created, the server
\* stopped answering and a call failed at its own first request.
C12_Witness ==
    /\ pc = "returned"
    /\ call.name = "couchdb_list_databases"
    /\ couch = "Server"
    /\ DOMAIN dbs # {}
    /\ ~reachable
    /\ reqs = <<Request("GET", <<"_all_dbs">>, NoBody)>>
    /\ Says(<<"Error: ">> \o ConnRefused.msg)
----------------------------------------------------------------------------
(* C13.  As the claim states it: every call of a catalog tool with all     *)
(* required arguments issues exactly one request to the database, on every *)
(* path.                                                                   *)
(* As the code has it: such a call issues at most one operation request;   *)
(* each database lookup server[database] before it is a request of its own *)
(* (HEAD /{db}), one for the tools that take a database and two when       *)
(* search_documents takes the fallback path: between 0 and 3 requests in   *)
(* all.  With the server answering and the database present there is       *)
(* exactly one operation request, and it is the last one.                  *)

IsLookup(q) == q.method = "HEAD"
IsOperation(q) == ~IsLookup(q) /\ ~IsLivenessCheck(q)
Lookups == SelectSeq(reqs, IsLookup)
Operations == SelectSeq(reqs, IsOperation)

ReturnedComplete == pc = "returned" /\ call \in CompleteCalls

----------------------------------------------------------------------------
(* C14.  A successful update_document(database, doc_id, document) changes  *)
(* no stored document but the one whose id is doc_id and answers with an   *)
(* id equal to doc_id, whatever the payload (with an _id of its own or     *)
(* not) and whether or not document doc_id exists.                         *)

C14_UpdateTouchesDocId ==
    [][\A a \in Arguments("couchdb_update_document") \ {Empty} :
        (/\ pc = "idle"
         /\ call' = [name |-> "couchdb_update_document", arguments |-> a]
         /\ resp'.blocks[1].text.json # NoVal)
        => /\ resp'.blocks[1].text.json.id = a["doc_id"]
           /\ DOMAIN dbs' = DOMAIN dbs
           /\ \A n \in DOMAIN dbs : \A i \in AllIds :
                 (n # a["database"] \/ i # a["doc_id"]) => dbs'[n].docs[i] = dbs[n].docs[i]]_vars

----------------------------------------------------------------------------
(* C15.  The database contents (databases, documents with their revisions, *)
(* indexes) change only in a call that answers with the success message of *)
(* create_database, delete_database, create_document, update_document,     *)
(* delete_document or create_index: list_databases, get_document,          *)
(* search_documents, list_documents and list_indexes, and every call that  *)
(* answers not found, already exists, conflict or "Error ...", leave them  *)
(* unchanged.                                                              *)

ReadTools ==
    {"couchdb_list_databases", "couchdb_get_document", "couchdb_search_documents",
     "couchdb_list_documents", "couchdb_list_indexes"}

\* The answer r to call c is the success message of a writing tool.
IsWriteSuccess(c, r) ==
    /\ r.raised = NoExc
    /\ Len(r.blocks) = 1
    /\ CASE c.name = "couchdb_create_database" ->
                r.blocks[1].text = Str(<<"Database '", c.arguments["name"], "' created successfully">>)
         [] c.name = "couchdb_delete_database" ->
                r.blocks[1].text = Str(<<"Database '", c.arguments["name"], "' deleted successfully">>)
         [] c.name = "couchdb_create_document" ->
                /\ r.blocks[1].text.json # NoVal
                /\ r.blocks[1].text.json.message = <<"Document created successfully">>
         [] c.name = "couchdb_update_document" ->
                /\ r.blocks[1].text.json # NoVal
                /\ r.blocks[1].text.json.message = <<"Document updated successfully">>
         [] c.name = "couchdb_delete_document" ->
                r.blocks[1].text = Str(<<"Document '", c.arguments["doc_id"], "' deleted successfully">>)
         [] c.name = "couchdb_create_index" ->
                /\ r.blocks[1].text.json # NoVal
                /\ r.blocks[1].text.json.message[1] = "Index created successfully on fields: "
         [] OTHER -> FALSE

C15_OnlySuccessfulWritesChange ==
    [][dbs' # dbs => (call'.name \notin ReadTools /\ IsWriteSuccess(call', resp'))]_vars

\* C15 happens: an update answered with the conflict message has left a
\* database that holds a document as it was, after a delete that changed it.
C15_Witness ==
    /\ pc = "returned"
    /\ call.name = "couchdb_update_document"
    /\ Says(ConflictAdvice)
    /\ \E n \in DOMAIN dbs : \E i \in AllIds : \E j \in AllIds :
          dbs[n].docs[i].st = "live" /\ dbs[n].docs[j].st = "deleted"
====
